---------------------------- MODULE Spec2Model ----------------------------
(***************************************************************************)
(* Model of the agent tools of au-sys-docs: the chat export that splits a  *)
(* transcript into size-capped files (ai_agent_tool_vscode_handover.py),   *)
(* the find/grep producers that persist a run, and the result viewer that  *)
(* lists runs and pages through one run's results.                        *)
(***************************************************************************)
EXTENDS Integers, Sequences, FiniteSets, TLC

VARIABLES
    \* ---- export_to_markdown (ai_agent_tool_vscode_handover.py)
    requests,       \* data['requests'] of the chat session JSON
    chunk_size,     \* the chunk_size argument
    created_files,  \* the files written so far, in order of creation
    returned,       \* the list export_to_markdown returns
    epc,            \* "start" | "done" | "failed"
    \* ---- the run store shared by the producers and the viewer
    now,            \* the wall clock, in ticks
    fs,             \* the runs root: run directory name -> its files
    persisted,      \* history: run directory -> what persist_results was handed
    created,        \* history: the directories create_run_dir returned, in order
    prod,           \* the producer invocations (find / grep) in flight
    \* ---- the viewer invocation (ai_agent_tool_view.py)
    view

evars == <<requests, chunk_size, created_files, returned, epc>>

svars == <<now, fs, persisted, created, prod>>

vars == <<requests, chunk_size, created_files, returned, epc,
          now, fs, persisted, created, prod, view>>

(***************************************************************************)
(* Bounds of the model.                                                    *)
(***************************************************************************)
MaxRequests == 3
MaxChunkSize == 24
MaxClock == 2
MaxResults == 4
MaxOffset == 5
MaxLimit == 5
SlugCap == 4

(***************************************************************************)
(* Program constants.                                                      *)
(***************************************************************************)
DefaultChunkSize == 500
DefaultLimit == 10
DefaultOffset == 0
UserHeaderLines == 3
AssistantHeaderLines == 3
SeparatorLines == 2

(***************************************************************************)
(* Texts.  A text is abstracted to what the export reads of it: the number  *)
(* of '\n' it holds and whether text.strip() is empty.                     *)
(***************************************************************************)
Text(n, b) == [nl |-> n, blank |-> b]

EmptyText == Text(0, TRUE)

Concat(s, t) == Text(s.nl + t.nl, s.blank /\ t.blank)

\* A literal of the source with n newlines around a non-blank word.
Literal(n) == Text(n, FALSE)

MessageTexts == {Text(0, FALSE), Text(1, FALSE)}

ResponseInputs ==
    { <<>>,
      <<Text(1, TRUE)>>,
      <<Text(1, FALSE), Text(1, FALSE)>>,
      <<Text(1, TRUE), EmptyText, Text(0, FALSE)>> }

RequestInputs ==
    [message : MessageTexts, response : ResponseInputs]

RECURSIVE SeqsUpTo(_, _)
SeqsUpTo(S, n) ==
    IF n = 0 THEN {<<>>}
    ELSE LET shorter == SeqsUpTo(S, n - 1)
         IN  shorter \cup {Append(s, x) : s \in {t \in shorter : Len(t) = n - 1}, x \in S}

ChunkSizes == (1..MaxChunkSize) \cup {DefaultChunkSize}

(***************************************************************************)
(* export_to_markdown: building the blocks.                                *)
(***************************************************************************)
\* for resp in responses: val = resp.get('value', ''); if val: full += val
RECURSIVE full_response_text(_)
full_response_text(responses) ==
    IF responses = <<>> THEN EmptyText
    ELSE Concat(Head(responses), full_response_text(Tail(responses)))

\* One request's block: "## User" part, optional "## Assistant" part, "---".
\* A block keeps the texts it was built from and the text it is.
BlockOf(req) ==
    LET full == full_response_text(req.response)
        user == Concat(Literal(UserHeaderLines), req.message)
        withResp ==
            IF ~full.blank
            THEN Concat(user, Concat(Literal(AssistantHeaderLines), full))
            ELSE user
    IN  [message |-> req.message,
         response |-> IF full.blank THEN EmptyText ELSE full,
         text |-> Concat(withResp, Literal(SeparatorLines))]

BuildBlocks(reqs) == [i \in 1..Len(reqs) |-> BlockOf(reqs[i])]

\* block.count('\n')
b_lines(block) == block.text.nl

RECURSIVE SumLines(_)
SumLines(blocks) ==
    IF blocks = <<>> THEN 0 ELSE b_lines(Head(blocks)) + SumLines(Tail(blocks))

total_lines(blocks) == SumLines(blocks)

(***************************************************************************)
(* export_to_markdown: the files.  A file is its part number (0 for the    *)
(* output file itself, written in single-file mode) and the blocks joined  *)
(* into it after the header.                                                *)
(***************************************************************************)
flush_chunk(idx, blks) == [part |-> idx, blocks |-> blks]

SingleFile(blocks) == [part |-> 0, blocks |-> blocks]

\* The state of the chunk loop.
LoopInit ==
    [current_chunk_idx |-> 1, current_lines |-> 0,
     current_blocks |-> <<>>, created_files |-> <<>>]

\* Mutants of MustFlush: the bound tested before the block is counted; the
\* bound tested with >=.
MustFlush_IgnoresBlock(st, block, size) ==
    st.current_lines > size /\ st.current_lines > 0

MustFlush_AtBound(st, block, size) ==
    st.current_lines + b_lines(block) >= size /\ st.current_lines > 0

\* if current_lines + b_lines > chunk_size and current_lines > 0
MustFlush(st, block, size) ==
    st.current_lines + b_lines(block) > size /\ st.current_lines > 0

\* One iteration of "for block in blocks".
LoopStep(st, block, size) ==
    LET flushed ==
            IF MustFlush(st, block, size)
            THEN [current_chunk_idx |-> st.current_chunk_idx + 1,
                  current_lines |-> 0,
                  current_blocks |-> <<>>,
                  created_files |->
                      Append(st.created_files,
                             flush_chunk(st.current_chunk_idx, st.current_blocks))]
            ELSE st
    IN  [flushed EXCEPT !.current_blocks = Append(@, block),
                        !.current_lines = @ + b_lines(block)]

RECURSIVE ChunkLoop(_, _, _)
ChunkLoop(st, blocks, size) ==
    IF blocks = <<>> THEN st
    ELSE ChunkLoop(LoopStep(st, Head(blocks), size), Tail(blocks), size)

\* Mutant of FinalFlush: the last chunk is never written.
FinalFlush_Forgotten(st) == st.created_files

\* if current_blocks: flush the last chunk
FinalFlush(st) ==
    IF st.current_blocks # <<>>
    THEN Append(st.created_files,
                flush_chunk(st.current_chunk_idx, st.current_blocks))
    ELSE st.created_files

ChunkMode(blocks, size) == FinalFlush(ChunkLoop(LoopInit, blocks, size))

(***************************************************************************)
(* export_to_markdown: the actions.                                        *)
(***************************************************************************)
\* if not requests: return []
ExportNoRequests ==
    /\ epc = "start"
    /\ requests = <<>>
    /\ returned' = <<>>
    /\ epc' = "done"
    /\ UNCHANGED <<requests, chunk_size, created_files, svars, view>>

\* if total_lines <= chunk_size: single file mode
ExportSingleFile ==
    /\ epc = "start"
    /\ requests # <<>>
    /\ LET blocks == BuildBlocks(requests)
       IN  /\ total_lines(blocks) <= chunk_size
           /\ created_files' = <<SingleFile(blocks)>>
           /\ returned' = <<SingleFile(blocks)>>
    /\ epc' = "done"
    /\ UNCHANGED <<requests, chunk_size, svars, view>>

\* else: chunk mode
ExportChunkMode ==
    /\ epc = "start"
    /\ requests # <<>>
    /\ LET blocks == BuildBlocks(requests)
       IN  /\ total_lines(blocks) > chunk_size
           /\ created_files' = ChunkMode(blocks, chunk_size)
           /\ returned' = ChunkMode(blocks, chunk_size)
    /\ epc' = "done"
    /\ UNCHANGED <<requests, chunk_size, svars, view>>

\* except Exception: return [] -- a write fails after k files were written
ExportFails ==
    /\ epc = "start"
    /\ requests # <<>>
    /\ LET blocks == BuildBlocks(requests)
           all == IF total_lines(blocks) <= chunk_size
                  THEN <<SingleFile(blocks)>>
                  ELSE ChunkMode(blocks, chunk_size)
       IN  \E k \in 0..(Len(all) - 1) :
               created_files' = SubSeq(all, 1, k)
    /\ returned' = <<>>
    /\ epc' = "failed"
    /\ UNCHANGED <<requests, chunk_size, svars, view>>

export_to_markdown ==
    \/ ExportNoRequests
    \/ ExportSingleFile
    \/ ExportChunkMode
    \/ ExportFails

(***************************************************************************)
(* The run store: names and values.                                        *)
(***************************************************************************)
Producers == {"p1", "p2"}

\* A query is the sequence of its characters.
Alnum == {"a", "d", "e", "f", "g", "i", "n", "p", "r", "t", "x"}

Separator == "_"

StarTxt == <<"*", ".", "t", "x", "t">>

AnyTxt == <<"?", ".", "t", "x", "t">>

Star == <<"*">>

ToolName(tool) ==
    IF tool = "find" THEN <<"f", "i", "n", "d">> ELSE <<"g", "r", "e", "p">>

\* RunIdentity.generate: the second-resolution creation-time prefix and the
\* slug of the query; an empty or all-symbol query falls back to the tool name.
Sanitize(query) ==
    [i \in 1..Len(query) |-> IF query[i] \in Alnum THEN query[i] ELSE Separator]

Capped(chars) ==
    IF Len(chars) > SlugCap THEN SubSeq(chars, 1, SlugCap) ELSE chars

Slug(tool, query) ==
    IF \E i \in 1..Len(query) : query[i] \in Alnum
    THEN Capped(Sanitize(query))
    ELSE ToolName(tool)

\* The clock ticks twice a second.
Second(t) == t \div 2

generate(tool, query, t) == [prefix |-> Second(t), slug |-> Slug(tool, query)]

\* The directory name of a candidate id with its numeric suffix (0: none).
DirName(id, n) == [prefix |-> id.prefix, slug |-> id.slug, suffix |-> n]

\* The characters of run ids in the order string comparison gives them.
Collation ==
    <<"0", "1", "2", "3", "4", "5", "6", "7", "8", "9", "_",
      "a", "d", "e", "f", "g", "i", "n", "o", "p", "r", "t", "x">>

Code(ch) == CHOOSE i \in 1..Len(Collation) : Collation[i] = ch

RECURSIVE Digits(_)
Digits(n) ==
    IF n < 10 THEN <<Collation[n + 1]>>
    ELSE Digits(n \div 10) \o <<Collation[(n % 10) + 1]>>

\* The run id as a string: the fixed-width time prefix (here one digit), the
\* slug, and the numeric suffix when there is one.
RunIdString(d) ==
    Digits(d.prefix) \o <<Separator>> \o d.slug
        \o (IF d.suffix = 0 THEN <<>> ELSE <<Separator>> \o Digits(d.suffix))

\* String comparison: a < b.
RECURSIVE LexLess(_, _)
LexLess(a, b) ==
    IF b = <<>> THEN FALSE
    ELSE IF a = <<>> THEN TRUE
    ELSE IF Code(Head(a)) # Code(Head(b)) THEN Code(Head(a)) < Code(Head(b))
    ELSE LexLess(Tail(a), Tail(b))

NoSuchRun == [prefix |-> 0, slug |-> <<"n", "o", "n", "e">>, suffix |-> 0]

\* A file is <<>> when it does not exist and <<document>> when it does.
EmptyDir == [results |-> <<>>, metadata |-> <<>>]

Exists(d) == d \in DOMAIN fs

\* Creating a directory leaves one that is already there as it is.
Mkdir(d) ==
    [e \in DOMAIN fs \cup {d} |-> IF e \in DOMAIN fs THEN fs[e] ELSE EmptyDir]

(***************************************************************************)
(* The external search skill: what find_files and grep_content yield.      *)
(***************************************************************************)
Resolve(item) ==
    CASE item = "a.txt" -> "/a.txt"
      [] item = "b.txt" -> "/b.txt"
      [] OTHER -> "/"

FindInvocations ==
    { [pattern |-> StarTxt, regex |-> FALSE, yields |-> <<"a.txt", "b.txt">>],
      [pattern |-> AnyTxt, regex |-> TRUE, yields |-> <<>>] }

Hit(item, n, text) == [path |-> item, line_number |-> n, content |-> text]

GrepInvocations ==
    { [query |-> Star, file_pattern |-> StarTxt, regex |-> FALSE,
       yields |-> <<Hit("a.txt", 1, "x*"), Hit("a.txt", 2, "*")>>],
      [query |-> StarTxt, file_pattern |-> Star, regex |-> FALSE,
       yields |-> <<Hit("b.txt", 1, "*.txt")>>] }

\* Python values: a str result entry and a dict result entry.
PathEntry(path) == [t |-> "str", s |-> path]

MatchEntry(path, n, text) ==
    [t |-> "dict", path |-> path, line_number |-> n, content |-> text]

(***************************************************************************)
(* The producers' matching loops.                                          *)
(***************************************************************************)
\* Mutant of FindAppend: the count is not advanced with the list.
FindAppend_NoCount(acc, item) ==
    [acc EXCEPT !.results = Append(@, PathEntry(Resolve(item)))]

\* results.append(str(item.resolve())); count += 1
FindAppend(acc, item) ==
    [acc EXCEPT !.results = Append(@, PathEntry(Resolve(item))),
                !.count = @ + 1]

\* path = result["path"].resolve(); found_in_files.add(str(path));
\* results.append({...}); count += 1
GrepAppend(acc, result) ==
    LET path == Resolve(result.path)
    IN  [acc EXCEPT !.found_in_files = @ \cup {path},
                    !.results = Append(@, MatchEntry(path, result.line_number,
                                                     result.content)),
                    !.count = @ + 1]

RECURSIVE FindLoop(_, _)
FindLoop(acc, items) ==
    IF items = <<>> THEN acc
    ELSE FindLoop(FindAppend(acc, Head(items)), Tail(items))

RECURSIVE GrepLoop(_, _)
GrepLoop(acc, items) ==
    IF items = <<>> THEN acc
    ELSE GrepLoop(GrepAppend(acc, Head(items)), Tail(items))

LoopStart == [results |-> <<>>, count |-> 0, found_in_files |-> {}]

RootPath == "/repo"

FindMetadata(inv, count) ==
    [tool |-> "ai_agent_tool_find", timestamp |-> now, query |-> inv.pattern,
     root |-> RootPath, regex |-> inv.regex, count |-> count]

GrepMetadata(inv, count, files) ==
    [tool |-> "ai_agent_tool_grep", timestamp |-> now, query |-> inv.query,
     file_pattern |-> inv.file_pattern, root |-> RootPath, regex |-> inv.regex,
     count |-> count, file_count |-> Cardinality(files)]

(***************************************************************************)
(* The JSON documents of a run directory.                                  *)
(***************************************************************************)
ToJsonEntry(e) ==
    IF e.t = "str"
    THEN [j |-> "string", v |-> e.s]
    ELSE [j |-> "object", path |-> e.path, line_number |-> e.line_number,
          content |-> e.content]

FromJsonEntry(x) ==
    IF x.j = "string"
    THEN PathEntry(x.v)
    ELSE MatchEntry(x.path, x.line_number, x.content)

ToJsonResults(results) == [i \in 1..Len(results) |-> ToJsonEntry(results[i])]

\* Mutant of FromJsonResults: the array is read back last element first.
FromJsonResults_Reversed(doc) ==
    [i \in 1..Len(doc) |-> FromJsonEntry(doc[Len(doc) + 1 - i])]

FromJsonResults(doc) == [i \in 1..Len(doc) |-> FromJsonEntry(doc[i])]

ToJsonMetadata(metadata) == [j |-> "object", members |-> metadata]

FromJsonMetadata(doc) == doc.members

(***************************************************************************)
(* The producer invocations.                                               *)
(***************************************************************************)
\* Nothing else happens between a viewer's exit and the reading of its output.
Running == view.pc # "exited"

IdleProducer ==
    [pc |-> "idle", tool |-> "none", query |-> <<>>, results |-> <<>>,
     count |-> 0, metadata |-> <<>>, id |-> <<>>, suffix |-> 0,
     run_dir |-> <<>>, printed |-> <<>>, stderr |-> FALSE, exit |-> <<>>]

\* Each producer is one invocation of a tool: it runs once.
NotStarted(p) == prod[p].pc = "idle"

\* ai_agent_tool_find.py main, lines 38-59: matching and the metadata.
FindMatch(p, inv) ==
    /\ Running
    /\ NotStarted(p)
    /\ LET acc == FindLoop(LoopStart, inv.yields)
       IN  prod' = [prod EXCEPT ![p] =
               [IdleProducer EXCEPT !.pc = "create", !.tool = "find",
                                    !.query = inv.pattern,
                                    !.results = acc.results,
                                    !.count = acc.count,
                                    !.metadata = <<FindMetadata(inv, acc.count)>>]]
    /\ UNCHANGED <<now, fs, persisted, created, evars, view>>

\* ai_agent_tool_grep.py main, lines 40-72: matching and the metadata.
GrepMatch(p, inv) ==
    /\ Running
    /\ NotStarted(p)
    /\ LET acc == GrepLoop(LoopStart, inv.yields)
       IN  prod' = [prod EXCEPT ![p] =
               [IdleProducer EXCEPT !.pc = "create", !.tool = "grep",
                                    !.query = inv.query,
                                    !.results = acc.results,
                                    !.count = acc.count,
                                    !.metadata =
                                        <<GrepMetadata(inv, acc.count,
                                                       acc.found_in_files)>>]]
    /\ UNCHANGED <<now, fs, persisted, created, evars, view>>

\* Mutant of Fail: the handler prints the error and forgets sys.exit(1).
Fail_ExitZero(p) ==
    [prod EXCEPT ![p] = [IdleProducer EXCEPT !.pc = "failed", !.tool = prod[p].tool,
                                             !.stderr = TRUE, !.exit = <<0>>]]

\* except Exception as e: print(..., file=sys.stderr); sys.exit(1)
\* The process ends: only what it printed and its exit code are left.
Fail(p) ==
    [prod EXCEPT ![p] = [IdleProducer EXCEPT !.pc = "failed", !.tool = prod[p].tool,
                                             !.stderr = TRUE, !.exit = <<1>>]]

\* The search raises while matching.
MatchFails(p, tool) ==
    /\ Running
    /\ NotStarted(p)
    /\ prod' = [prod EXCEPT ![p] =
           [IdleProducer EXCEPT !.pc = "failed", !.tool = tool,
                                !.stderr = TRUE, !.exit = <<1>>]]
    /\ UNCHANGED <<now, fs, persisted, created, evars, view>>

\* create_run_dir: the candidate id is derived from the tool, the query and
\* the time of the call.
Candidate(p) == DirName(prod[p].id[1], prod[p].suffix)

\* Mutant of NextSuffix: the suffix is not advanced past a taken name.
NextSuffix_Stuck(n) == n

\* The increasing numeric suffix.
NextSuffix(n) == n + 1

\* Mutant of NameTaken: an existing directory is not seen as taken.
NameTaken_Never(d) == FALSE

\* A candidate name is taken when a directory of that name exists.
NameTaken(d) == Exists(d)

\* create_run_dir: the candidate id is derived from the tool, the query and
\* the time of the call, and checked: if a directory of that name exists, the
\* next suffix is tried.
CreateRunDirBegin(p) ==
    /\ Running
    /\ prod[p].pc = "create"
    /\ LET id == generate(prod[p].tool, prod[p].query, now)
       IN  IF NameTaken(DirName(id, 0))
           THEN prod' = [prod EXCEPT ![p].pc = "check", ![p].id = <<id>>,
                                    ![p].suffix = NextSuffix(0)]
           ELSE prod' = [prod EXCEPT ![p].pc = "mkdir", ![p].id = <<id>>,
                                    ![p].suffix = 0]
    /\ UNCHANGED <<now, fs, persisted, created, evars, view>>

\* Mutant of DirectoryExists: the directory is made with exist_ok, so making
\* one that is already there succeeds.
DirectoryExists_Ignored(d) == FALSE

\* Making a directory fails with directory-exists when the name is taken.
DirectoryExists(d) == NameTaken(d)

\* create_run_dir: check whether the candidate exists; if so, next suffix.
\* ("retry": the call is back here after losing the creation of a name.)
CreateRunDirCheck(p) ==
    /\ Running
    /\ prod[p].pc \in {"check", "retry"}
    /\ IF NameTaken(Candidate(p))
       THEN prod' = [prod EXCEPT ![p].suffix = NextSuffix(@)]
       ELSE prod' = [prod EXCEPT ![p].pc = "mkdir"]
    /\ UNCHANGED <<now, fs, persisted, created, evars, view>>

\* create_run_dir: create the directory; creation is atomic, and a name taken
\* in the meantime sends the call back to the next suffix.
CreateRunDirMkdir(p) ==
    /\ Running
    /\ prod[p].pc = "mkdir"
    /\ IF DirectoryExists(Candidate(p))
       THEN /\ prod' = [prod EXCEPT ![p].pc = "retry", ![p].suffix = NextSuffix(@)]
            /\ UNCHANGED <<fs, created>>
       ELSE /\ fs' = Mkdir(Candidate(p))
            /\ created' = Append(created, Candidate(p))
            /\ prod' = [prod EXCEPT ![p].pc = "persist",
                                    ![p].run_dir = <<Candidate(p)>>]
    /\ UNCHANGED <<now, persisted, evars, view>>

\* create_run_dir fails with StorageError: the root is not writable.
CreateRunDirFails(p) ==
    /\ Running
    /\ prod[p].pc \in {"create", "check", "retry", "mkdir"}
    /\ prod' = Fail(p)
    /\ UNCHANGED <<now, fs, persisted, created, evars, view>>

WriteFile(d, name, doc) ==
    [fs EXCEPT ![d] = IF name = "results.json"
                      THEN [@ EXCEPT !.results = <<doc>>]
                      ELSE [@ EXCEPT !.metadata = <<doc>>]]

\* Mutant of FirstFile: the metadata is written before the results.
FirstFile_Metadata == "metadata.json"

\* persist_results writes the results first and the metadata last.
FirstFile == "results.json"

SecondFile == IF FirstFile = "results.json" THEN "metadata.json" ELSE "results.json"

DocFor(p, name) ==
    IF name = "results.json"
    THEN ToJsonResults(prod[p].results)
    ELSE ToJsonMetadata(prod[p].metadata[1])

\* persist_results: count must equal len(results), checked; then the first file.
PersistFirst(p) ==
    /\ Running
    /\ prod[p].pc = "persist"
    /\ LET d == prod[p].run_dir[1]
       IN  IF prod[p].metadata[1].count # Len(prod[p].results)
           THEN /\ prod' = Fail(p)
                /\ UNCHANGED <<fs, persisted>>
           ELSE /\ fs' = WriteFile(d, FirstFile, DocFor(p, FirstFile))
                /\ persisted' =
                       [e \in DOMAIN persisted \cup {d} |->
                           IF e = d
                           THEN [metadata |-> prod[p].metadata[1],
                                 results |-> prod[p].results]
                           ELSE persisted[e]]
                /\ prod' = [prod EXCEPT ![p].pc = "finalize"]
    /\ UNCHANGED <<now, created, evars, view>>

\* persist_results: the second file completes the run.
PersistSecond(p) ==
    /\ Running
    /\ prod[p].pc = "finalize"
    /\ fs' = WriteFile(prod[p].run_dir[1], SecondFile, DocFor(p, SecondFile))
    /\ prod' = [prod EXCEPT ![p].pc = "print"]
    /\ UNCHANGED <<now, persisted, created, evars, view>>

\* persist_results fails with PersistenceError before either write.
PersistFails(p) ==
    /\ Running
    /\ prod[p].pc \in {"persist", "finalize"}
    /\ prod' = Fail(p)
    /\ UNCHANGED <<now, fs, persisted, created, evars, view>>

\* The summary: total matches and the run id.
PrintSummary(p) ==
    /\ Running
    /\ prod[p].pc = "print"
    /\ prod' = [prod EXCEPT ![p] =
           [IdleProducer EXCEPT !.pc = "done", !.tool = prod[p].tool,
                                !.printed = <<[count |-> prod[p].count,
                                               run_id |-> prod[p].run_dir[1]]>>,
                                !.exit = <<0>>]]
    /\ UNCHANGED <<now, fs, persisted, created, evars, view>>

Tick ==
    /\ Running
    /\ now < MaxClock
    /\ now' = now + 1
    /\ UNCHANGED <<fs, persisted, created, prod, evars, view>>

\* A store no run was written to.
InitStore ==
    /\ now = 0
    /\ fs = <<>>
    /\ persisted = <<>>
    /\ created = <<>>
    /\ prod = [p \in Producers |-> IdleProducer]

\* The store a finished find invocation leaves: one run directory holding
\* the results and the metadata it was handed.
StoreAfterFind(d, metadata, results) ==
    /\ fs = [e \in {d} |-> [results |-> <<ToJsonResults(results)>>,
                            metadata |-> <<ToJsonMetadata(metadata)>>]]
    /\ persisted = [e \in {d} |-> [metadata |-> metadata, results |-> results]]
    /\ created = <<d>>

EarlierFind == [pattern |-> StarTxt, regex |-> FALSE, yields |-> <<"a.txt", "b.txt">>]

\* The store is empty, or holds the run of an earlier find.
InitRuns ==
    /\ now = 0
    /\ prod = [p \in Producers |-> IdleProducer]
    /\ \/ /\ fs = <<>>
          /\ persisted = <<>>
          /\ created = <<>>
       \/ LET acc == FindLoop(LoopStart, EarlierFind.yields)
          IN  StoreAfterFind(DirName(generate("find", EarlierFind.pattern, 0), 0),
                             FindMetadata(EarlierFind, acc.count), acc.results)

(***************************************************************************)
(* The result reader: load_results and list_runs.                          *)
(***************************************************************************)
\* Mutant of Readable: whatever the metadata file holds is taken as metadata.
Readable_Anything(doc) == TRUE

\* The metadata file parses when it holds a whole JSON object.
Readable(doc) == doc.j = "object"

\* A run is there for a reader when its metadata is, and can be read.
Complete(d) ==
    /\ Exists(d)
    /\ fs[d].metadata # <<>>
    /\ Readable(fs[d].metadata[1])

\* The record list_runs gives for a run: the metadata and the run id.
RunRecord(d) ==
    LET m == FromJsonMetadata(fs[d].metadata[1])
    IN  [run_id |-> d, tool |-> m.tool, query |-> m.query,
         created_at |-> m.timestamp, count |-> m.count]

\* load_results, first read: the metadata; <<>> when the run is not found.
load_metadata(run_id) ==
    IF Complete(run_id) THEN <<FromJsonMetadata(fs[run_id].metadata[1])>> ELSE <<>>

\* load_results, second read: the results; <<>> when they are missing or
\* their number is not the metadata's count.
load_results(run_id, metadata) ==
    LET file == fs[run_id].results
    IN  IF file = <<>> \/ Len(file[1]) # metadata.count
        THEN <<>>
        ELSE <<FromJsonResults(file[1])>>

NoFilter == <<>>

Matches(d, tool_filter) ==
    tool_filter = NoFilter \/ RunRecord(d).tool = tool_filter[1]

\* Mutant of NewestFirst: oldest first.
NewestFirst_Ascending(a, b) == a.created_at <= b.created_at

\* The order of list_runs: created_at descending.
NewestFirst(a, b) == a.created_at >= b.created_at

\* Every order of the listed runs that list_runs may return: runs without
\* readable metadata are skipped, the filter is applied, and the rest sorted.
list_runs(tool_filter) ==
    LET listed == {d \in DOMAIN fs : Complete(d) /\ Matches(d, tool_filter)}
        n == Cardinality(listed)
    IN  { [i \in 1..n |-> RunRecord(order[i])] :
            order \in { o \in [1..n -> listed] :
                          /\ \A i, k \in 1..n : i # k => o[i] # o[k]
                          /\ \A i \in 1..(n - 1) :
                                 NewestFirst(RunRecord(o[i]), RunRecord(o[i + 1])) } }

(***************************************************************************)
(* The viewer.                                                             *)
(***************************************************************************)
\* Python's sequence[start:stop] for any integers start and stop.
ClipIndex(i, len) ==
    IF i < 0 THEN (IF len + i < 0 THEN 0 ELSE len + i)
    ELSE IF i > len THEN len ELSE i

PySlice(s, start, stop) ==
    LET lo == ClipIndex(start, Len(s))
        hi == ClipIndex(stop, Len(s))
    IN  IF lo < hi THEN SubSeq(s, lo + 1, hi) ELSE <<>>

Min(a, b) == IF a <= b THEN a ELSE b

Max(a, b) == IF a >= b THEN a ELSE b

IdleView ==
    [pc |-> "idle", args |-> <<>>, metadata |-> <<>>, out |-> [kind |-> "none"],
     stderr |-> FALSE, exit |-> <<>>]

Args(run_id, offset, limit, full) ==
    [run_id |-> run_id, offset |-> offset, limit |-> limit, full |-> full]

\* Mutant of PrintRuns: the table is printed last row first.
PrintRuns_Reversed(runs) ==
    [i \in 1..Len(runs) |->
        LET run == runs[Len(runs) + 1 - i]
        IN  [run_id |-> run.run_id, tool |-> run.tool, count |-> run.count,
             query |-> run.query, created_at |-> run.created_at]]

\* for run in runs: print(run_id | tool | count | query)
PrintRuns(runs) ==
    [i \in 1..Len(runs) |->
        [run_id |-> runs[i].run_id, tool |-> runs[i].tool,
         count |-> runs[i].count, query |-> runs[i].query,
         created_at |-> runs[i].created_at]]

\* if args.list or not args.run_id: the listing (lines 32-42)
ViewList(tool_filter) ==
    /\ view.pc = "idle"
    /\ \E runs \in list_runs(tool_filter) :
           view' = [IdleView EXCEPT
                      !.pc = "exited",
                      !.out = IF runs = <<>>
                              THEN [kind |-> "no_runs", tool_filter |-> tool_filter]
                              ELSE [kind |-> "list", tool_filter |-> tool_filter,
                                    rows |-> PrintRuns(runs)],
                      !.exit = <<0>>]
    /\ UNCHANGED <<evars, svars>>

\* data = query_skill.load_results(args.run_id), as far as the metadata;
\* except Exception: "Error loading run", exit 1.
ViewLoadMetadata(args) ==
    /\ view.pc = "idle"
    /\ IF load_metadata(args.run_id) # <<>>
       THEN view' = [IdleView EXCEPT
                       !.pc = "results", !.args = <<args>>,
                       !.metadata = load_metadata(args.run_id)]
       ELSE view' = [IdleView EXCEPT
                       !.pc = "exited",
                       !.args = <<args>>, !.out = [kind |-> "error"],
                       !.stderr = TRUE, !.exit = <<1>>]
    /\ UNCHANGED <<evars, svars>>

\* Mutant of display_results: the window ends at limit, not offset + limit.
display_results_EndIsLimit(results, args) ==
    IF ~args.full
    THEN PySlice(results, args.offset, args.limit)
    ELSE results

\* display_results = results; if not args.full: results[start:end]
display_results(results, args) ==
    IF ~args.full
    THEN PySlice(results, args.offset, args.offset + args.limit)
    ELSE results

\* "Showing results {start+1} to {min(end, len(results))}:"
Showing(results, args) ==
    IF ~args.full
    THEN <<args.offset + 1, Min(args.offset + args.limit, Len(results))>>
    ELSE <<>>

\* for i, res in enumerate(display_results, args.offset + 1)
Enumerate(display, first) ==
    [k \in 1..Len(display) |-> [i |-> first + k - 1, res |-> display[k]]]

\* Mutant of More: what is left is counted from the offset.
More_FromOffset(results, args) ==
    IF ~args.full /\ Len(results) > args.offset + args.limit
    THEN <<[more |-> Len(results) - args.offset,
            next_offset |-> args.offset + args.limit]>>
    ELSE <<>>

\* if not args.full and len(results) > (args.offset + args.limit):
\*     "... and N more." / "SUGGESTION: Use --offset ..."
More(results, args) ==
    IF ~args.full /\ Len(results) > args.offset + args.limit
    THEN <<[more |-> Len(results) - (args.offset + args.limit),
            next_offset |-> args.offset + args.limit]>>
    ELSE <<>>

\* load_results returns the results; then the page (lines 45-78).
ViewShowResults ==
    /\ view.pc = "results"
    /\ LET args == view.args[1]
           meta == view.metadata[1]
           data == load_results(args.run_id, meta)
       IN  IF data = <<>>
           THEN view' = [view EXCEPT !.pc = "exited", !.out = [kind |-> "error"],
                                     !.stderr = TRUE, !.exit = <<1>>]
           ELSE LET results == data[1]
                IN  view' = [view EXCEPT
                        !.pc = "exited",
                        !.out = [kind |-> "run",
                                 run_id |-> args.run_id,
                                 tool |-> meta.tool,
                                 query |-> meta.query,
                                 metadata |-> meta,
                                 results |-> results,
                                 total |-> Len(results),
                                 showing |-> Showing(results, args),
                                 lines |-> Enumerate(display_results(results, args),
                                                     args.offset + 1),
                                 more |-> More(results, args)],
                        !.exit = <<0>>]
    /\ UNCHANGED <<evars, svars>>

InitView == view = IdleView

(***************************************************************************)
(* The store under concurrent producers and a viewer.                      *)
(***************************************************************************)
ToolFilters == {NoFilter, <<"find">>, <<"grep">>}

Producer(p) ==
    \/ \E inv \in FindInvocations : FindMatch(p, inv)
    \/ \E inv \in GrepInvocations : GrepMatch(p, inv)
    \/ \E tool \in {"find", "grep"} : MatchFails(p, tool)
    \/ CreateRunDirBegin(p)
    \/ CreateRunDirCheck(p)
    \/ CreateRunDirMkdir(p)
    \/ CreateRunDirFails(p)
    \/ PersistFirst(p)
    \/ PersistSecond(p)
    \/ PersistFails(p)
    \/ PrintSummary(p)

Viewer ==
    \/ \E tool_filter \in ToolFilters : ViewList(tool_filter)
    \/ \E run_id \in DOMAIN fs \cup {NoSuchRun} :
           ViewLoadMetadata(Args(run_id, DefaultOffset, DefaultLimit, FALSE))
    \/ ViewShowResults

Init ==
    /\ requests = <<>>
    /\ chunk_size = DefaultChunkSize
    /\ created_files = <<>>
    /\ returned = <<>>
    /\ epc = "start"
    /\ InitRuns
    /\ InitView

\* A viewer that has exited leaves its output to be read before anything
\* else happens; the next invocation starts from nothing.
ViewExit ==
    /\ view.pc = "exited"
    /\ view' = IdleView
    /\ UNCHANGED <<evars, svars>>

Next ==
    \/ \E p \in Producers : Producer(p)
    \/ Tick
    \/ Viewer
    \/ ViewExit

Spec == Init /\ [][Next]_vars

(***************************************************************************)
(* The viewer paging through one stored run, with any arguments.           *)
(***************************************************************************)
PageSizes == (0..MaxResults) \cup {25}

Offsets == (-1..MaxOffset) \cup {10}

Limits == (-1..MaxLimit) \cup {DefaultLimit}

\* The i-th path a find stored.
NthPath(i) == PathEntry(i - 1)

PagedDir == DirName(generate("find", StarTxt, 0), 0)

ViewArgs ==
    { Args(run_id, offset, limit, full) :
        run_id \in {PagedDir, NoSuchRun}, offset \in Offsets,
        limit \in Limits, full \in BOOLEAN }

\* The store holds one run of a find that matched n files.
InitPaged ==
    /\ requests = <<>>
    /\ chunk_size = DefaultChunkSize
    /\ created_files = <<>>
    /\ returned = <<>>
    /\ epc = "start"
    /\ now = 0
    /\ prod = [p \in Producers |-> IdleProducer]
    /\ \E n \in PageSizes :
           StoreAfterFind(PagedDir,
                          FindMetadata([pattern |-> StarTxt, regex |-> FALSE], n),
                          [i \in 1..n |-> NthPath(i)])
    /\ InitView

ViewRun == \E args \in ViewArgs : ViewLoadMetadata(args)

NextPaged ==
    \/ ViewRun
    \/ ViewShowResults
    \/ ViewExit

SpecPaged == InitPaged /\ [][NextPaged]_vars

(***************************************************************************)
(* The store with a damaged run: one producer, the viewer, and a fault that *)
(* cuts a written metadata file short.                                     *)
(***************************************************************************)
\* What is left of a metadata file that was cut short: no JSON document.
Truncated(doc) == [doc EXCEPT !.j = "truncated"]

Damage ==
    /\ Running
    /\ \E d \in DOMAIN fs :
           /\ fs[d].metadata # <<>>
           /\ Readable(fs[d].metadata[1])
           /\ fs' = [fs EXCEPT ![d].metadata = <<Truncated(@[1])>>]
    /\ UNCHANGED <<now, persisted, created, prod, evars, view>>

\* A fault leaves a results file with its last entry gone.
LoseResult ==
    /\ Running
    /\ \E d \in DOMAIN fs :
           /\ fs[d].results # <<>>
           /\ fs[d].results[1] # <<>>
           /\ fs' = [fs EXCEPT ![d].results =
                         <<SubSeq(@[1], 1, Len(@[1]) - 1)>>]
    /\ UNCHANGED <<now, persisted, created, prod, evars, view>>

NextDamaged ==
    \/ Producer("p1")
    \/ Tick
    \/ Viewer
    \/ ViewExit
    \/ Damage
    \/ LoseResult

SpecDamaged == Init /\ [][NextDamaged]_vars

InitExport ==
    /\ requests \in SeqsUpTo(RequestInputs, MaxRequests)
    /\ chunk_size \in ChunkSizes
    /\ created_files = <<>>
    /\ returned = <<>>
    /\ epc = "start"
    /\ InitStore
    /\ InitView

NextExport == export_to_markdown

SpecExport == InitExport /\ [][NextExport]_vars

(***************************************************************************)
(* Claims about the splitter.                                              *)
(***************************************************************************)
RECURSIVE Flatten(_)
Flatten(files) ==
    IF files = <<>> THEN <<>>
    ELSE Head(files).blocks \o Flatten(Tail(files))

Weight(file) == SumLines(file.blocks)

Oversize(block) == b_lines(block) > chunk_size

\* A group of consecutive blocks respects the bound when its total weight is
\* within chunk_size or it is one block on its own.
GroupAllowed(blks, size) == SumLines(blks) <= size \/ Len(blks) = 1

\* The least number of groups a partition of blks into consecutive, unsplit
\* groups that respect the bound can have.
RECURSIVE MinChunks(_, _)
MinChunks(blks, size) ==
    IF blks = <<>> THEN 0
    ELSE LET firsts == {k \in 1..Len(blks) : GroupAllowed(SubSeq(blks, 1, k), size)}
             counts == {1 + MinChunks(SubSeq(blks, k + 1, Len(blks)), size) : k \in firsts}
         IN  CHOOSE n \in counts : \A m \in counts : n <= m

\* C1: after a successful export the blocks of the returned files, joined in
\* file order and in block order within each file, are exactly the input
\* blocks: none dropped, duplicated, reordered or split.
C1_ConcatReproducesInput ==
    epc = "done" =>
        /\ Flatten(returned) = BuildBlocks(requests)
        /\ returned = created_files

C1_Witness ==
    /\ epc = "done"
    /\ Len(returned) >= 2
    /\ \E i \in 1..Len(returned) : Len(returned[i].blocks) >= 2
    /\ Flatten(returned) = BuildBlocks(requests)

\* C2: every returned file weighs at most chunk_size unless it holds exactly
\* one block and that block alone exceeds chunk_size; an oversize block is
\* always alone in its file.
C2_ChunkWithinBound ==
    epc = "done" =>
        \A i \in 1..Len(returned) :
            LET f == returned[i]
            IN  /\ \/ Weight(f) <= chunk_size
                   \/ Len(f.blocks) = 1 /\ Oversize(f.blocks[1])
                /\ \A j \in 1..Len(f.blocks) :
                       Oversize(f.blocks[j]) => Len(f.blocks) = 1

\* Three equal blocks, two of which do not fit together: three files of one
\* block each; and, elsewhere, an oversize block alone beside a fitting file.
C2_Witness ==
    /\ epc = "done"
    /\ \/ /\ Len(returned) = 3
          /\ \A i \in 1..3 :
                 /\ Len(returned[i].blocks) = 1
                 /\ Weight(returned[i]) <= chunk_size
                 /\ Weight(returned[i]) = Weight(returned[1])
       \/ /\ Len(returned) = 2
          /\ Len(returned[1].blocks) = 2
          /\ Weight(returned[1]) <= chunk_size
          /\ Weight(returned[2]) > chunk_size

\* C3: no returned file is empty, the number of files is the least any
\* partition into consecutive unsplit groups within the bound can have, and
\* a document within chunk_size is one file holding every block.
C3_MinimalChunks ==
    epc = "done" =>
        LET blocks == BuildBlocks(requests)
        IN  /\ \A i \in 1..Len(returned) : returned[i].blocks # <<>>
            /\ Len(returned) = MinChunks(blocks, chunk_size)
            /\ (blocks # <<>> /\ SumLines(blocks) <= chunk_size)
                   => returned = <<SingleFile(blocks)>>

C3_Witness ==
    /\ epc = "done"
    /\ Len(requests) = 3
    /\ Len(returned) = 2
    /\ MinChunks(BuildBlocks(requests), chunk_size) = 2

(***************************************************************************)
(* Claims about the run store.                                             *)
(***************************************************************************)
NoDuplicates(seq) == \A i, k \in 1..Len(seq) : i # k => seq[i] # seq[k]

\* Every directory create_run_dir returned is a different one, each is a
\* directory of its own, and a suffixed name exists only above the names
\* with the smaller suffixes.
C4_Distinct ==
    /\ NoDuplicates(created)
    /\ Cardinality(DOMAIN fs) = Len(created)
    /\ \A d \in DOMAIN fs :
           \A k \in 0..(d.suffix - 1) : DirName(d, k) \in DOMAIN fs

\* A step in which create_run_dir returns hands out a name that did not
\* exist; no step removes a directory or changes a file once written.
C4_Fresh ==
    /\ created' # created => created'[Len(created')] \notin DOMAIN fs
    /\ \A d \in DOMAIN fs :
           /\ d \in DOMAIN fs'
           /\ fs[d].results # <<>> => fs'[d].results = fs[d].results
           /\ fs[d].metadata # <<>> => fs'[d].metadata = fs[d].metadata

\* C4: create_run_dir called N times, also within one second and with the
\* same tool and query, returns N distinct directories, each a name that did
\* not exist before the call, reached by increasing the numeric suffix; no
\* earlier run directory is reused or overwritten.
C4_UniqueRunDirs == []C4_Distinct /\ [][C4_Fresh]_vars

\* Three runs of the same tool and query within one second.
C4_Witness ==
    /\ Len(created) = 3
    /\ \A i \in 1..3 :
           /\ created[i].prefix = created[1].prefix
           /\ created[i].slug = created[1].slug
           /\ created[i].suffix = i - 1
    /\ \A p \in Producers : prod[p].pc = "done"

ViewedRun == view.pc = "exited" /\ view.out.kind = "run"

C6_NoPartialRun ==
    /\ \A d \in DOMAIN fs :
           fs[d].metadata # <<>> =>
               /\ fs[d].results # <<>>
               /\ d \in DOMAIN persisted
               /\ FromJsonResults(fs[d].results[1]) = persisted[d].results
               /\ FromJsonMetadata(fs[d].metadata[1]) = persisted[d].metadata
    /\ view.pc = "results" => fs[view.args[1].run_id].results # <<>>
    /\ (view.pc = "exited" /\ view.out.kind = "list") =>
           \A i \in 1..Len(view.out.rows) :
               LET d == view.out.rows[i].run_id
               IN  fs[d].metadata # <<>> /\ fs[d].results # <<>>
    /\ ViewedRun => view.out.results = persisted[view.out.run_id].results

\* A persist failed between its two writes, and a reader asked for that run.
C6_Witness ==
    /\ view.pc = "exited"
    /\ view.out.kind = "error"
    /\ LET d == view.args[1].run_id
       IN  /\ Exists(d)
           /\ fs[d].results # <<>>
           /\ fs[d].metadata = <<>>
           /\ \E p \in Producers : prod[p].pc = "failed"
           /\ \A p \in Producers : prod[p].run_dir # <<d>>

CreatedAt(run_id) == FromJsonMetadata(fs[run_id].metadata[1]).timestamp

Held(p) ==
    IF prod[p].run_dir # <<>> THEN prod[p].run_dir
    ELSE IF prod[p].printed # <<>> THEN <<prod[p].printed[1].run_id>>
    ELSE <<>>

\* C15: two producers that call create_run_dir concurrently, also with the
\* same timestamp and slug, never hold the same directory, however their
\* checks and creations interleave: the one that loses the creation of a name
\* goes on to the next suffix, and what a producer has written into its
\* directory is its own results and metadata.
C15_RaceGivesTwoDirs ==
    /\ \A p, q \in Producers :
           (p # q /\ Held(p) # <<>> /\ Held(q) # <<>>) => Held(p) # Held(q)
    /\ \A p \in Producers :
           /\ prod[p].pc = "retry" =>
                  /\ prod[p].suffix > 0
                  /\ Exists(DirName(prod[p].id[1], prod[p].suffix - 1))
           /\ prod[p].pc \in {"finalize", "print"} =>
                  fs[prod[p].run_dir[1]].results = <<ToJsonResults(prod[p].results)>>
           /\ prod[p].pc = "print" =>
                  fs[prod[p].run_dir[1]].metadata
                      = <<ToJsonMetadata(prod[p].metadata[1])>>

\* Both producers found the same name free; one made the directory and the
\* other, losing the creation, is on its way to the next suffix.
C15_Witness ==
    \E p, q \in Producers :
        /\ p # q
        /\ prod[p].pc = "retry"
        /\ prod[p].suffix = 1
        /\ prod[q].pc = "persist"
        /\ prod[q].run_dir = <<DirName(prod[p].id[1], 0)>>
        /\ DOMAIN fs = {DirName(prod[p].id[1], 0)}

\* The step of its main a producer is in: 0 before matching, 1 in
\* create_run_dir, 2 in persist_results, 3 at the summary, 4 exited.
Step(pc) ==
    CASE pc = "idle" -> 0
      [] pc \in {"create", "check", "retry", "mkdir"} -> 1
      [] pc \in {"persist", "finalize"} -> 2
      [] pc = "print" -> 3
      [] OTHER -> 4

\* What an invocation has printed, and how it ended, against the store.
C16_Outcome ==
    \A p \in Producers :
        /\ prod[p].printed # <<>> =>
               LET d == prod[p].printed[1].run_id
               IN  /\ prod[p].pc = "done"
                   /\ prod[p].exit = <<0>>
                   /\ ~prod[p].stderr
                   /\ d \in DOMAIN persisted
                   /\ fs[d].results = <<ToJsonResults(persisted[d].results)>>
                   /\ fs[d].metadata = <<ToJsonMetadata(persisted[d].metadata)>>
                   /\ prod[p].printed[1].count = persisted[d].metadata.count
        /\ prod[p].pc = "done" => prod[p].printed # <<>>
        /\ prod[p].pc = "failed" =>
               /\ prod[p].printed = <<>>
               /\ prod[p].stderr
               /\ prod[p].exit = <<1>>
        /\ Step(prod[p].pc) < 4 =>
               /\ prod[p].printed = <<>>
               /\ ~prod[p].stderr
               /\ prod[p].exit = <<>>
        /\ Step(prod[p].pc) = 1 =>
               /\ prod[p].metadata # <<>>
               /\ prod[p].run_dir = <<>>
        /\ prod[p].pc = "persist" =>
               fs[prod[p].run_dir[1]] = EmptyDir
        /\ prod[p].pc = "print" =>
               /\ fs[prod[p].run_dir[1]].results # <<>>
               /\ fs[prod[p].run_dir[1]].metadata # <<>>

\* A producer goes from one step to the next or fails; it fails only in
\* matching, create_run_dir or persist_results, and prints the run id only
\* from the summary step.
C16_Order ==
    \A p \in Producers :
        prod'[p].pc # prod[p].pc =>
            /\ Step(prod'[p].pc) >= Step(prod[p].pc)
            /\ prod'[p].pc # "failed" => Step(prod'[p].pc) <= Step(prod[p].pc) + 1
            /\ prod'[p].pc = "failed" => Step(prod[p].pc) <= 2
            /\ prod'[p].printed # <<>> => prod[p].pc = "print"

\* C16: in every producer invocation matching completes, then
\* create_run_dir, then persist_results, then the run id and the count are
\* printed; a run id is printed only when persist_results has returned, and
\* a failure of matching, create_run_dir or persist_results ends the process
\* with the error on the error stream, exit code 1 and no run id printed.
C16_StepOrder == []C16_Outcome /\ [][C16_Order]_vars

\* One producer printed its run; the other failed in persist_results, after
\* its directory was made and before the metadata was written.
C16_Witness ==
    \E p, q \in Producers :
        /\ prod[p].pc = "done"
        /\ prod[p].printed # <<>>
        /\ prod[p].printed[1].count = 2
        /\ Complete(prod[p].printed[1].run_id)
        /\ prod[q].pc = "failed"
        /\ prod[q].exit = <<1>>
        /\ prod[q].printed = <<>>
        /\ \E d \in DOMAIN fs : fs[d].results # <<>> /\ fs[d].metadata = <<>>

\* C14: run ids sort lexically by creation time: of any two runs, also two
\* of the same second with numeric suffixes or with different slugs, the one
\* created later (its directory made later, its id not of an earlier second)
\* has the lexically greater run id.
C14_IdsSortByCreation ==
    \A i, k \in 1..Len(created) :
        (i < k /\ created[i].prefix <= created[k].prefix)
            => LexLess(RunIdString(created[i]), RunIdString(created[k]))

(***************************************************************************)
(* Claims about the listing.                                               *)
(***************************************************************************)
ViewedList == view.pc = "exited" /\ view.out.kind \in {"list", "no_runs"}

ListedRows == IF view.out.kind = "list" THEN view.out.rows ELSE <<>>

ListedIds == {ListedRows[i].run_id : i \in 1..Len(ListedRows)}

\* The tool whose producer persisted run d, by the name the producer passes to
\* create_run_dir and the viewer's --tool help gives: find or grep.
ProducerTool(d) ==
    IF persisted[d].metadata.tool = "ai_agent_tool_find" THEN "find" ELSE "grep"

\* C11: a listing filtered by tool T holds exactly the runs of tool T, none
\* of another tool and none of tool T missing, in the order they have in an
\* unfiltered listing; so for the runs the find and grep producers persisted,
\* filtered with the names the viewer's --tool option gives (find, grep).
C11_FilterExact ==
    (ViewedList /\ view.out.tool_filter # NoFilter) =>
        LET T == view.out.tool_filter[1]
            In(run) == run.run_id \in ListedIds
        IN  /\ ListedIds = {d \in DOMAIN fs : Complete(d) /\ ProducerTool(d) = T}
            /\ \E all \in list_runs(NoFilter) :
                   ListedRows = PrintRuns(SelectSeq(all, In))

\* A run whose metadata file is the document persist_results wrote.
WellFormed(d) ==
    /\ d \in DOMAIN persisted
    /\ fs[d].metadata = <<ToJsonMetadata(persisted[d].metadata)>>

\* A run directory whose metadata is missing, or is no JSON document.
Malformed(d) == fs[d].metadata = <<>> \/ fs[d].metadata[1].j # "object"

StoredCount(d) == FromJsonMetadata(fs[d].metadata[1]).count

\* The stored results of a readable run are not as many as its count says.
CountMismatch(d) ==
    /\ Complete(d)
    /\ fs[d].results # <<>>
    /\ Len(fs[d].results[1]) # StoredCount(d)

\* C13: the count in a run's metadata is the length of its result list: the
\* producers hand persist_results a count equal to len(results), what persist
\* accepted and wrote has that count, a load that returns data returns as many
\* results as the count, and a load of a run whose stored results differ in
\* number from its count fails (error stream, exit code 1) and returns nothing.
C13_CountIsLength ==
    /\ \A p \in Producers :
           prod[p].pc \in {"create", "check", "retry", "mkdir", "persist", "finalize"} =>
               /\ prod[p].count = Len(prod[p].results)
               /\ prod[p].metadata[1].count = Len(prod[p].results)
    /\ \A d \in DOMAIN persisted :
           persisted[d].metadata.count = Len(persisted[d].results)
    /\ \A d \in DOMAIN fs :
           (Complete(d) /\ fs[d].results = <<ToJsonResults(persisted[d].results)>>)
               => StoredCount(d) = Len(fs[d].results[1])
    /\ ViewedRun =>
           /\ view.out.metadata.count = Len(view.out.results)
           /\ view.out.total = Len(fs[view.out.run_id].results[1])
    /\ (view.pc = "exited" /\ view.args # <<>> /\ CountMismatch(view.args[1].run_id))
           => /\ view.out.kind = "error"
              /\ view.stderr
              /\ view.exit = <<1>>

\* The producer's find stored two results under count 2; one was lost from the
\* results file, and the load of the run failed.
C13_Witness ==
    /\ view.pc = "exited"
    /\ view.args # <<>>
    /\ view.out.kind = "error"
    /\ prod["p1"].pc = "done"
    /\ LET d == view.args[1].run_id
       IN  /\ prod["p1"].printed = <<[count |-> 2, run_id |-> d]>>
           /\ CountMismatch(d)
           /\ StoredCount(d) = 2
           /\ Len(fs[d].results[1]) = 1

(***************************************************************************)
(* Claims about the viewer's page.                                         *)
(***************************************************************************)
ViewedArgs == view.args[1]

Stored == persisted[ViewedArgs.run_id].results

Paging ==
    /\ view.pc = "exited"
    /\ view.args # <<>>
    /\ Complete(ViewedArgs.run_id)
    /\ ~ViewedArgs.full
    /\ ViewedArgs.offset >= 0
    /\ ViewedArgs.limit > 0

\* C7: without --full, for offset >= 0 and limit > 0, the lines shown are
\* results[offset : offset + limit] clipped to the list, so
\* min(limit, max(0, len(results) - offset)) of them; an offset at or past
\* the end shows nothing and is no error.
C7_WindowIsSlice ==
    Paging =>
        LET n == Min(ViewedArgs.limit, Max(0, Len(Stored) - ViewedArgs.offset))
        IN  /\ view.out.kind = "run"
            /\ view.exit = <<0>>
            /\ Len(view.out.lines) = n
            /\ \A k \in 1..n :
                   /\ view.out.lines[k].res = Stored[ViewedArgs.offset + k]
                   /\ view.out.lines[k].i = ViewedArgs.offset + k

\* A window the end of the list clips.
C7_Witness ==
    /\ Paging
    /\ Len(Stored) = 4
    /\ ViewedArgs.offset = 2
    /\ ViewedArgs.limit = 5
    /\ Len(view.out.lines) = 2

Remaining == IF view.out.more = <<>> THEN 0 ELSE view.out.more[1].more

\* C8: without --full, for offset >= 0 and limit > 0, the number reported as
\* remaining is max(0, len(results) - offset - limit); the "more" line is
\* printed exactly when that is positive, with offset + limit as the next
\* offset.
C8_RemainingCount ==
    Paging =>
        LET left == Max(0, Len(Stored) - ViewedArgs.offset - ViewedArgs.limit)
        IN  /\ view.out.kind = "run"
            /\ Remaining = left
            /\ (view.out.more # <<>>) <=> (left > 0)
            /\ view.out.more # <<>> =>
                   view.out.more[1].next_offset
                       = ViewedArgs.offset + ViewedArgs.limit

\* 25 results, offset 10, limit 10: entries 10..19 shown, 5 remaining.
C8_Witness ==
    /\ Paging
    /\ Len(Stored) = 25
    /\ ViewedArgs.offset = 10
    /\ ViewedArgs.limit = 10
    /\ Len(view.out.lines) = 10
    /\ view.out.lines[1].res = PathEntry(10)
    /\ view.out.lines[10].res = PathEntry(19)
    /\ Remaining = 5

\* C9: with --full the page is results[offset:], len(results) - offset
\* entries for 0 <= offset <= len(results), and nothing is reported as
\* remaining, whatever the limit.
C9_FullFromOffset ==
    (/\ view.pc = "exited"
     /\ view.args # <<>>
     /\ Complete(ViewedArgs.run_id)
     /\ ViewedArgs.full
     /\ ViewedArgs.offset >= 0
     /\ ViewedArgs.offset <= Len(Stored)) =>
        /\ view.out.kind = "run"
        /\ Len(view.out.lines) = Len(Stored) - ViewedArgs.offset
        /\ \A k \in 1..Len(view.out.lines) :
               view.out.lines[k].res = Stored[ViewedArgs.offset + k]
        /\ view.out.more = <<>>

=============================================================================
